---- MODULE Spec2Model ----
(***************************************************************************)
(* Model of the rosbag extraction pipeline (3-pipeline/extract_bag.py):    *)
(* extract_single streams one bag and writes per-topic CSV files and image *)
(* directories; extract_all runs it over the bags of a directory; the      *)
(* command line (__main__) infers end_idx and dispatches to one of them.   *)
(***************************************************************************)
EXTENDS Integers, Sequences, FiniteSets, TLC

\* ------------------------------------------------------------------ bounds
\* Largest number of messages read from one bag.
MaxMsgs == 3
\* Largest start_idx of a schema entry.
MaxStart == 1
\* Largest finite end_idx of a schema entry.
MaxEnd == 2
\* Largest throttle_rate of a schema entry.
MaxThrottle == 2

\* --------------------------------------------------------- program constants
\* int(9E15), the value __main__ substitutes for end_idx == -1.  TLC's
\* integers are 32 bits wide, so the model holds the largest value TLC can
\* represent; like 9E15 it is finite and above every cursor the model reaches.
InferredEndIdx == 2147483647

\* ------------------------------------------------------------------ inputs
CmdVelTopic == "/cmd_vel"
AuxTopic == "/aux"
UnlistedTopic == "/unlisted"

\* Topics a bag may carry: the two the schema configures and one it does not.
BagTopics == {CmdVelTopic, AuxTopic, UnlistedTopic}

TwistType == "geometry_msgs/Twist"
LinearType == "geometry_msgs/Vector3"
UnsupportedType == "unsupported"
MsgTypes == {TwistType, LinearType, UnsupportedType}

\* I/O operations of one loop iteration that may raise, "none" for no fault.
Faults == {"none", "open", "writeheader", "writerow", "mkdir", "save"}

\* Schema entries of the configurations the model runs.
SchemaEntry(topic, out, kind, s, e, r) ==
    [rosbag_topic |-> topic, output_dir |-> out, output_type |-> kind,
     start_idx |-> s, end_idx |-> e, throttle_rate |-> r]

StartIdxs == 0..MaxStart
EndIdxs == {-1} \cup 1..MaxEnd
ThrottleRates == 1..MaxThrottle

\* Sampling parameters <<start_idx, end_idx, throttle_rate>> of the second
\* entry: unbounded keep-all, a bounded window, and a throttled window.
AuxSamplings == { <<0, -1, 1>>, <<MaxStart, MaxEnd, 1>>, <<0, MaxEnd + 1, MaxThrottle>> }

\* Configurations: /cmd_vel is tabular, /aux is tabular or an image directory.
Configs ==
    { <<SchemaEntry(CmdVelTopic, "cmd_vel", "csv", s, e, r),
        SchemaEntry(AuxTopic, "aux", kind, a[1], a[2], a[3])>> :
        s \in StartIdxs, e \in EndIdxs, r \in ThrottleRates,
        kind \in {"csv", "dir_of_imgs"}, a \in AuxSamplings }

\* Directory entries given to extract_all: the file name without its suffix,
\* the suffix, and the size in bytes.  A hidden file's stem starts with a dot,
\* recorded in `dot` (TLC cannot take a string apart).
DirEntry(st, sfx, d, sz) == [stem |-> st, suffix |-> sfx, dot |-> d, size |-> sz]
Directories ==
    { {DirEntry("a", ".bag", FALSE, 300), DirEntry("b", ".bag", FALSE, 100),
       DirEntry("c", ".bag", FALSE, 200)},
      {DirEntry("b", ".bag", FALSE, 100), DirEntry(".d", ".bag", TRUE, 50),
       DirEntry("notes", ".txt", FALSE, 10)} }

VARIABLES
    entry,             \* "cli" (__main__) or "api" (direct call)
    mode,              \* "single" (a .bag path) or "all" (a directory)
    directory,         \* the files of the directory given to extract_all
    data_schema,       \* extraction_config["data_schema"]
    pc,                \* control position
    list_o_bags,       \* extract_all: sorted bag paths
    bagIdx,            \* extract_all: index (1-based) of the bag being extracted
    bag_name,          \* extract_single: bag being extracted
    csv_writers,       \* extract_single: registered CSV writers, insertion order
    img_writers,       \* extract_single: registered image directories
    topic_msg_counts,  \* extract_single: per-topic cursor
    raised,            \* an exception is propagating out of extract_single
    pos,               \* messages read_messages() has yielded for this bag
    seen,              \* per topic, messages read_messages() has yielded
    opens,             \* per topic, open() calls on its CSV path in this bag
    closes,            \* per topic, close() calls on its CSV handles in this bag
    mkdirs,            \* per topic, mkdir calls on its image directory in this bag
    csvFile,           \* per topic, lines of <output_dir>/<bag>/<stem>.csv
    imgFiles           \* per topic, names saved under <output_dir>/<bag>/<stem>/

vars == <<entry, mode, directory, data_schema, pc, list_o_bags, bagIdx, bag_name,
          csv_writers, img_writers, topic_msg_counts, raised, pos, seen,
          opens, closes, mkdirs, csvFile, imgFiles>>

bagVars == <<csv_writers, img_writers, topic_msg_counts, raised, pos, seen,
             opens, closes, mkdirs, csvFile, imgFiles>>

\* ------------------------------------------------------- pure helpers
\* rosbag_topics = [ topic_info["rosbag_topic"] for topic_info in data_schema ]
RosbagTopics(schema) == { schema[i].rosbag_topic : i \in 1..Len(schema) }

\* [ topic_info for topic_info in data_schema if rosbag_topic == topic ][0]
TopicConfig(schema, topic) ==
    schema[CHOOSE i \in 1..Len(schema) :
             /\ schema[i].rosbag_topic = topic
             /\ \A j \in 1..(i - 1) : schema[j].rosbag_topic # topic]

\* Keys of a schema entry the code reads with topic_info[...].
RequiredKeys ==
    {"rosbag_topic", "output_dir", "output_type", "start_idx", "end_idx", "throttle_rate"}

\* The comprehensions of lines 66-67 read rosbag_topic and output_dir of every
\* entry: KeyError when one of them is missing.
SetupKeyError(schema) ==
    \E i \in 1..Len(schema) :
        ~({"rosbag_topic", "output_dir"} \subseteq DOMAIN schema[i])

\* Line 165 reads end_idx of every entry: KeyError when it is missing.
MainKeyError(schema) ==
    \E i \in 1..Len(schema) : "end_idx" \notin DOMAIN schema[i]

\* Lines 89-108 read start_idx, end_idx, throttle_rate and output_type of the
\* topic's entry, each only when the `and` chain and the accept branch get
\* that far: KeyError at the first one read and missing.
SamplingKeyError(topic_idx, topic_config) ==
    \/ "start_idx" \notin DOMAIN topic_config
    \/ /\ topic_idx >= topic_config.start_idx
       /\ \/ "end_idx" \notin DOMAIN topic_config
          \/ /\ topic_idx < topic_config.end_idx
             /\ \/ "throttle_rate" \notin DOMAIN topic_config
                \/ /\ topic_idx % topic_config.throttle_rate = 0
                   /\ "output_type" \notin DOMAIN topic_config

\* Variant of ShouldKeep without the lower bound.
ShouldKeepNoStart(topic_idx, topic_config) ==
    /\ topic_idx < topic_config.end_idx
    /\ topic_idx % topic_config.throttle_rate = 0

\* Variant of ShouldKeep with an inclusive upper bound.
ShouldKeepInclusiveEnd(topic_idx, topic_config) ==
    /\ topic_idx >= topic_config.start_idx
    /\ topic_idx <= topic_config.end_idx
    /\ topic_idx % topic_config.throttle_rate = 0

\* The sampling test of extract_single.
ShouldKeep(topic_idx, topic_config) ==
    /\ topic_idx >= topic_config.start_idx
    /\ topic_idx < topic_config.end_idx
    /\ topic_idx % topic_config.throttle_rate = 0

\* Variant of InferEndIdx that leaves the schema as loaded.
InferEndIdxNone(schema) == schema

\* "Infer end idx" of __main__: -1 becomes int(9E15).
InferEndIdx(schema) ==
    [i \in 1..Len(schema) |->
        IF schema[i].end_idx = -1
        THEN [schema[i] EXCEPT !.end_idx = InferredEndIdx]
        ELSE schema[i]]

\* Field names, in order, of the mapping process_twist returns.
process_twist == <<"stamp", "vx", "vy", "vz", "wx", "wy", "wz">>

\* The extractor registry of rosbag_preprocess.data_handler: a message type
\* is registered or not, and a registered type has an ordered field list.
Supported(msg_type) == msg_type \in {TwistType, LinearType}

process_msg_csv(msg_type) ==
    IF msg_type = TwistType THEN process_twist
    ELSE <<"stamp", "vx", "vy", "vz">>

get_msg_cols(msg_type) == process_msg_csv(msg_type)

Range(seq) == { seq[i] : i \in 1..Len(seq) }

\* csv.DictWriter.writerow with the defaults of the constructor call
\* (extrasaction='raise', restval=''): a key outside fieldnames raises
\* ValueError, a fieldname without a key is written as the empty string.
WriteRowRaises(fieldnames, keys) == Range(keys) \ Range(fieldnames) # {}

\* Variant of RowCells that writes the values in the order of the mapping.
RowCellsInKeyOrder(fieldnames, keys) == [i \in 1..Len(keys) |-> "value"]

RowCells(fieldnames, keys) ==
    [i \in 1..Len(fieldnames) |->
        IF fieldnames[i] \in Range(keys) THEN "value" ELSE ""]

HeaderLine(fieldnames) == [kind |-> "header", idx |-> -1, cells |-> fieldnames]
RowLine(idx, cells) == [kind |-> "row", idx |-> idx, cells |-> cells]

\* Variant of AppendRow that puts the new row right after the header.
InsertRowFirst(lines, row) == <<Head(lines), row>> \o Tail(lines)

\* writer.writerow(...) on a file opened with 'w': the row goes to the end.
AppendRow(lines, row) == Append(lines, row)

\* csv_writers is a dict keyed by topic, kept here in insertion order.
WriterTopics(writers) == { writers[i].topic : i \in 1..Len(writers) }

WriterOf(writers, topic) ==
    writers[CHOOSE i \in 1..Len(writers) : writers[i].topic = topic]

\* csv_writers[topic] = {...}: a new key is appended, an existing key keeps
\* its place and takes the new value.
SetWriter(writers, topic, cols, msg_type) ==
    LET w == [topic |-> topic, fieldnames |-> cols, msg_type |-> msg_type]
    IN IF topic \in WriterTopics(writers)
       THEN [i \in 1..Len(writers) |->
                IF writers[i].topic = topic THEN w ELSE writers[i]]
       ELSE Append(writers, w)

\* Variant of NeedsCsvSink that creates the sink on every accepted message.
NeedsCsvSinkAlways(writers, topic) == TRUE

\* `if topic not in csv_writers` / `if topic not in img_writers`
NeedsCsvSink(writers, topic) == topic \notin WriterTopics(writers)
NeedsImgSink(writers, topic) == topic \notin writers

\* Variant of ImageFileName that numbers the images consecutively.
ImageFileNameRenumbered(counts, saved, topic) == Len(saved)

\* The file index of a saved image: {topic_msg_counts[topic]}.png
ImageFileName(counts, saved, topic) == counts[topic]

\* Variant of Bookkeeping whose except path starts the dict over.
BookkeepingClobber(counts, topic) ==
    IF topic \in DOMAIN counts
    THEN [counts EXCEPT ![topic] = @ + 1]
    ELSE [t \in (DOMAIN counts) \cup {topic} |-> IF t = topic THEN 1 ELSE 0]

\* Variant of Bookkeeping that always takes the except path.
BookkeepingReset(counts, topic) ==
    [t \in (DOMAIN counts) \cup {topic} |-> IF t = topic THEN 1 ELSE counts[t]]

\* Bookkeeping: topic_msg_counts[topic] += 1, or = 1 on KeyError.
Bookkeeping(counts, topic) ==
    IF topic \in DOMAIN counts
    THEN [counts EXCEPT ![topic] = @ + 1]
    ELSE [t \in (DOMAIN counts) \cup {topic} |->
             IF t = topic THEN 1 ELSE counts[t]]

\* Variant of FallsThrough with an else branch that raises on an output type
\* other than csv and dir_of_imgs.
UnknownKindRaises(kind) == kind = "skip"

\* The if/elif of lines 92 and 108 has no else: a message that is skipped, or
\* accepted for any other output type, goes on to the bookkeeping.
FallsThrough(kind) == TRUE

\* Variant of OnMessageError that skips the failing message and goes on.
OnMessageErrorSkip == "streaming"

\* Where control goes when an iteration of the loop raises: the exception
\* leaves the for loop and the with blocks and enters the finally clause.
OnMessageError == "finally"

\* ------------------------------------------------------- extract_single
ConfiguredTopics == RosbagTopics(data_schema)

NoCounts == [t \in {} |-> 0]
ZeroOn(S) == [t \in S |-> 0]
EmptyOn(S) == [t \in S |-> <<>>]

\* Variant of FreshCounts that keeps the cursors of the previous call.
CarriedCounts(previous, topics) ==
    [t \in topics |-> IF t \in DOMAIN previous THEN previous[t] ELSE 0]

\* Line 70: topic_msg_counts = {topic: 0 for topic in rosbag_topics}, a new
\* dict for each call, whatever the previous call left.
FreshCounts(previous, topics) == ZeroOn(topics)

\* The tabular branch of one iteration (lines 92-106) applied to the state:
\* the writers, opens and file contents it leaves, and whether it raised.
CsvBranch(topic, msg_type, fault, topic_idx) ==
    LET create == NeedsCsvSink(csv_writers, topic)
        openRaises == create /\ fault = "open"
        opened == create /\ ~openRaises
        opens1 == IF opened THEN [opens EXCEPT ![topic] = @ + 1] ELSE opens
        file1 == IF opened THEN [csvFile EXCEPT ![topic] = <<>>] ELSE csvFile
        headerRaises == opened /\ (~Supported(msg_type) \/ fault = "writeheader")
        registered == opened /\ ~headerRaises
        file2 == IF registered
                 THEN [file1 EXCEPT ![topic] = Append(@, HeaderLine(get_msg_cols(msg_type)))]
                 ELSE file1
        writers1 == IF registered
                    THEN SetWriter(csv_writers, topic, get_msg_cols(msg_type), msg_type)
                    ELSE csv_writers
        reachedRow == ~openRaises /\ ~headerRaises
        processRaises == reachedRow /\ ~Supported(msg_type)
        fieldnames == WriterOf(writers1, topic).fieldnames
        rowRaises == /\ reachedRow /\ ~processRaises
                     /\ \/ WriteRowRaises(fieldnames, process_msg_csv(msg_type))
                        \/ fault = "writerow"
        wrote == reachedRow /\ ~processRaises /\ ~rowRaises
        file3 == IF wrote
                 THEN [file2 EXCEPT ![topic] =
                         AppendRow(@, RowLine(topic_idx,
                                              RowCells(fieldnames, process_msg_csv(msg_type))))]
                 ELSE file2
    IN [ok |-> wrote, csv_writers |-> writers1, opens |-> opens1, csvFile |-> file3]

\* The image branch of one iteration (lines 108-115).
ImgBranch(topic, msg_type, fault) ==
    LET create == NeedsImgSink(img_writers, topic)
        mkdirRaises == create /\ fault = "mkdir"
        made == create /\ ~mkdirRaises
        mkdirs1 == IF made THEN [mkdirs EXCEPT ![topic] = @ + 1] ELSE mkdirs
        writers1 == IF made THEN img_writers \cup {topic} ELSE img_writers
        processRaises == ~mkdirRaises /\ ~Supported(msg_type)
        saveRaises == ~mkdirRaises /\ ~processRaises /\ fault = "save"
        saved == ~mkdirRaises /\ ~processRaises /\ ~saveRaises
        files1 == IF saved
                  THEN [imgFiles EXCEPT ![topic] =
                          Append(@, ImageFileName(topic_msg_counts, imgFiles[topic], topic))]
                  ELSE imgFiles
    IN [ok |-> saved, img_writers |-> writers1, mkdirs |-> mkdirs1, imgFiles |-> files1]

\* Lines 66-71: the locals of extract_single for the bag `name`.
\* A KeyError here is raised before the try statement: extract_single ends
\* at once, without its finally clause.
Setup ==
    /\ pc = "setup"
    /\ IF SetupKeyError(data_schema)
       THEN /\ raised' = TRUE
            /\ pc' = "return"
            /\ UNCHANGED <<csv_writers, img_writers, topic_msg_counts, pos, seen,
                           opens, closes, mkdirs, csvFile, imgFiles>>
       ELSE /\ csv_writers' = <<>>
            /\ img_writers' = {}
            /\ topic_msg_counts' = FreshCounts(topic_msg_counts, ConfiguredTopics)
            /\ raised' = FALSE
            /\ pos' = 0
            /\ seen' = ZeroOn(BagTopics)
            /\ opens' = ZeroOn(ConfiguredTopics)
            /\ closes' = ZeroOn(ConfiguredTopics)
            /\ mkdirs' = ZeroOn(ConfiguredTopics)
            /\ csvFile' = EmptyOn(ConfiguredTopics)
            /\ imgFiles' = EmptyOn(ConfiguredTopics)
            /\ pc' = "open"
    /\ UNCHANGED <<entry, mode, directory, data_schema, list_o_bags, bagIdx, bag_name>>

\* Line 76: rosbag.Bag(path, 'r') opens the bag or raises.
OpenBag(ok) ==
    /\ pc = "open"
    /\ pc' = IF ok THEN "streaming" ELSE "finally"
    /\ raised' = ~ok
    /\ UNCHANGED <<entry, mode, directory, data_schema, list_o_bags, bagIdx, bag_name,
                   csv_writers, img_writers, topic_msg_counts, pos, seen,
                   opens, closes, mkdirs, csvFile, imgFiles>>

\* Lines 80-123: one iteration of the loop over bag.read_messages(), for
\* the message (topic, msg_type) and the I/O fault it meets.
HandleMessage(topic, msg_type, fault) ==
    /\ pc = "streaming"
    /\ pos' = pos + 1
    /\ seen' = [seen EXCEPT ![topic] = @ + 1]
    /\ LET configured == topic \in ConfiguredTopics
           topic_config == TopicConfig(data_schema, topic)
           topic_idx == topic_msg_counts[topic]
           keyError == configured /\ SamplingKeyError(topic_idx, topic_config)
           accepted == configured /\ ~keyError /\ ShouldKeep(topic_idx, topic_config)
           kind == IF accepted THEN topic_config.output_type ELSE "skip"
           csv == CsvBranch(topic, msg_type, fault, topic_idx)
           img == ImgBranch(topic, msg_type, fault)
           ok == CASE keyError -> FALSE
                   [] kind = "csv" -> csv.ok
                   [] kind = "dir_of_imgs" -> img.ok
                   [] OTHER -> FallsThrough(kind)
       IN /\ IF kind = "csv"
             THEN /\ csv_writers' = csv.csv_writers
                  /\ opens' = csv.opens
                  /\ csvFile' = csv.csvFile
             ELSE UNCHANGED <<csv_writers, opens, csvFile>>
          /\ IF kind = "dir_of_imgs"
             THEN /\ img_writers' = img.img_writers
                  /\ mkdirs' = img.mkdirs
                  /\ imgFiles' = img.imgFiles
             ELSE UNCHANGED <<img_writers, mkdirs, imgFiles>>
          /\ IF ok
             THEN /\ topic_msg_counts' = Bookkeeping(topic_msg_counts, topic)
                  /\ UNCHANGED <<pc, raised>>
             ELSE /\ pc' = OnMessageError
                  /\ raised' = TRUE
                  /\ UNCHANGED topic_msg_counts
    /\ UNCHANGED <<entry, mode, directory, data_schema, list_o_bags, bagIdx, bag_name,
                   closes>>

\* The bag yields one more message, of any topic and type.
ReadMessage(topic, msg_type, fault) ==
    /\ pos < MaxMsgs
    /\ HandleMessage(topic, msg_type, fault)

\* The loop ends: read_messages() is exhausted.
Exhausted ==
    /\ pc = "streaming"
    /\ pc' = "finally"
    /\ UNCHANGED <<entry, mode, directory, data_schema, list_o_bags, bagIdx, bag_name,
                   csv_writers, img_writers, topic_msg_counts, raised, pos, seen,
                   opens, closes, mkdirs, csvFile, imgFiles>>

\* The writers the finally clause reaches: all of them, or those up to the
\* one whose close() raises (failAt > 0), which is itself closed by it.
ClosedByFinally(writers, failAt) ==
    { writers[i].topic : i \in 1..(IF failAt = 0 THEN Len(writers) ELSE failAt) }

\* Lines 125-128: close the file of every registered writer, in dict order.
\* close() flushes buffered rows and may raise; the loop then stops.
Finally(failAt) ==
    /\ pc = "finally"
    /\ failAt \in 0..Len(csv_writers)
    /\ closes' = [t \in DOMAIN closes |->
                    IF t \in ClosedByFinally(csv_writers, failAt)
                    THEN closes[t] + 1 ELSE closes[t]]
    /\ raised' = (raised \/ failAt > 0)
    /\ pc' = "return"
    /\ UNCHANGED <<entry, mode, directory, data_schema, list_o_bags, bagIdx, bag_name,
                   csv_writers, img_writers, topic_msg_counts, pos, seen,
                   opens, mkdirs, csvFile, imgFiles>>

\* extract_single is over: it returns, or its exception reaches the caller.
\* Neither extract_all (lines 141-144) nor __main__ (lines 169-172) catches
\* it, so a raised exception ends the run.
Return ==
    /\ pc = "return"
    /\ IF raised
       THEN pc' = "crashed" /\ UNCHANGED bagIdx
       ELSE IF mode = "all"
            THEN pc' = "loop" /\ bagIdx' = bagIdx + 1
            ELSE pc' = "exit" /\ UNCHANGED bagIdx
    /\ UNCHANGED <<entry, mode, directory, data_schema, list_o_bags, bag_name,
                   csv_writers, img_writers, topic_msg_counts, raised, pos, seen,
                   opens, closes, mkdirs, csvFile, imgFiles>>

\* ---------------------------------------------------------- extract_all
\* Path(dir).glob('*.bag') without the names that start with a dot.
GlobBags(dir) == { f \in dir : f.suffix = ".bag" /\ ~f.dot }

\* Variant of SortedBySize that keeps the order glob happens to give.
UnsortedBags(files) ==
    { order \in [1..Cardinality(files) -> files] :
        \A i, j \in DOMAIN order : i # j => order[i] # order[j] }

\* The orders list.sort(key=size) can leave the globbed files in.
SortedBySize(files) ==
    { order \in [1..Cardinality(files) -> files] :
        /\ \A i, j \in DOMAIN order : i # j => order[i] # order[j]
        /\ \A i, j \in DOMAIN order : i < j => order[i].size <= order[j].size }

\* Lines 133-138: list, filter, sort.
ExtractAll(order) ==
    /\ pc = "extract_all"
    /\ order \in SortedBySize(GlobBags(directory))
    /\ list_o_bags' = order
    /\ bagIdx' = 1
    /\ pc' = "loop"
    /\ UNCHANGED <<entry, mode, directory, data_schema, bag_name, bagVars>>

\* Lines 141-143: the next bag of the list is handed to extract_single.
NextBag ==
    /\ pc = "loop"
    /\ bagIdx <= Len(list_o_bags)
    /\ bag_name' = list_o_bags[bagIdx].stem
    /\ pc' = "setup"
    /\ UNCHANGED <<entry, mode, directory, data_schema, list_o_bags, bagIdx, bagVars>>

\* The for loop of extract_all is over.
BatchDone ==
    /\ pc = "loop"
    /\ bagIdx > Len(list_o_bags)
    /\ pc' = "exit"
    /\ UNCHANGED <<entry, mode, directory, data_schema, list_o_bags, bagIdx, bag_name,
                   bagVars>>

\* ------------------------------------------------------------- __main__
\* Lines 163-172: infer end_idx, then dispatch on the '.bag' suffix.
Main ==
    /\ pc = "main"
    /\ IF MainKeyError(data_schema)
       THEN pc' = "crashed" /\ UNCHANGED data_schema
       ELSE /\ data_schema' = InferEndIdx(data_schema)
            /\ pc' = IF mode = "single" THEN "setup" ELSE "extract_all"
    /\ UNCHANGED <<entry, mode, directory, list_o_bags, bagIdx, bag_name, bagVars>>

\* ------------------------------------------------------------ behaviours
Init ==
    /\ entry \in {"cli", "api"}
    /\ mode \in {"single", "all"}
    /\ directory \in (IF mode = "all" THEN Directories ELSE {{}})
    /\ data_schema \in Configs
    /\ pc = (IF entry = "cli" THEN "main"
             ELSE IF mode = "single" THEN "setup" ELSE "extract_all")
    /\ list_o_bags = <<>>
    /\ bagIdx = 0
    /\ bag_name = (IF mode = "single" THEN "canonical" ELSE "")
    /\ csv_writers = <<>>
    /\ img_writers = {}
    /\ topic_msg_counts = NoCounts
    /\ raised = FALSE
    /\ pos = 0
    /\ seen = NoCounts
    /\ opens = NoCounts
    /\ closes = NoCounts
    /\ mkdirs = NoCounts
    /\ csvFile = NoCounts
    /\ imgFiles = NoCounts

Next ==
    \/ Main
    \/ \E order \in UNION { SortedBySize(GlobBags(d)) : d \in Directories } :
          ExtractAll(order)
    \/ NextBag
    \/ BatchDone
    \/ Setup
    \/ \E ok \in BOOLEAN : OpenBag(ok)
    \/ \E topic \in BagTopics, msg_type \in MsgTypes, fault \in Faults :
          ReadMessage(topic, msg_type, fault)
    \/ Exhausted
    \/ \E failAt \in 0..Cardinality(BagTopics) : Finally(failAt)
    \/ Return

Spec == Init /\ [][Next]_vars

\* The state before a run on a configuration of `schemas`.
InitRun(schemas) ==
    /\ entry \in {"cli", "api"}
    /\ mode \in {"single", "all"}
    /\ directory \in (IF mode = "all" THEN Directories ELSE {{}})
    /\ data_schema \in schemas
    /\ pc = (IF entry = "cli" THEN "main"
             ELSE IF mode = "single" THEN "setup" ELSE "extract_all")
    /\ list_o_bags = <<>>
    /\ bagIdx = 0
    /\ bag_name = (IF mode = "single" THEN "canonical" ELSE "")
    /\ csv_writers = <<>>
    /\ img_writers = {}
    /\ topic_msg_counts = NoCounts
    /\ raised = FALSE
    /\ pos = 0
    /\ seen = NoCounts
    /\ opens = NoCounts
    /\ closes = NoCounts
    /\ mkdirs = NoCounts
    /\ csvFile = NoCounts
    /\ imgFiles = NoCounts

\* The end-to-end scenario: a tabular topic keeping every second message
\* without upper bound, an image topic keeping cursors 1..4, and bags that
\* hold six messages of each, in any interleaving, run from the command line.
E2EConfig ==
    << SchemaEntry(CmdVelTopic, "cmd_vel", "csv", 0, -1, 2),
       SchemaEntry(AuxTopic, "aux", "dir_of_imgs", 1, 5, 1) >>

E2EBag == [t \in {CmdVelTopic, AuxTopic} |-> 6]

E2ERead(topic) ==
    /\ pc = "streaming"
    /\ seen[topic] < E2EBag[topic]
    /\ HandleMessage(topic, TwistType, "none")

E2EExhausted ==
    /\ pc = "streaming"
    /\ \A t \in DOMAIN E2EBag : seen[t] = E2EBag[t]
    /\ pc' = "finally"
    /\ UNCHANGED <<entry, mode, directory, data_schema, list_o_bags, bagIdx, bag_name,
                   bagVars>>

InitE2E == InitRun({E2EConfig}) /\ entry = "cli"

NextE2E ==
    \/ Main
    \/ \E order \in UNION { SortedBySize(GlobBags(d)) : d \in Directories } :
          ExtractAll(order)
    \/ NextBag
    \/ BatchDone
    \/ Setup
    \/ OpenBag(TRUE)
    \/ \E topic \in DOMAIN E2EBag : E2ERead(topic)
    \/ E2EExhausted
    \/ Finally(0)
    \/ Return

SpecE2E == InitE2E /\ [][NextE2E]_vars

\* Configurations whose second entry asks for an output type the pipeline
\* has no branch for.
ConfigsOtherKind ==
    { [i \in 1..Len(cfg) |->
          IF i = 2 THEN [cfg[i] EXCEPT !.output_type = "pcd"] ELSE cfg[i]] :
        cfg \in { c \in Configs : c[1].start_idx = 0 /\ c[1].throttle_rate = 1 } }

\* Runs on a configuration with such an entry.
InitKinds == InitRun(ConfigsOtherKind)
SpecKinds == InitKinds /\ [][Next]_vars

\* A schema entry without the key k.
WithoutKey(c, k) == [x \in (DOMAIN c) \ {k} |-> c[x]]

\* Configurations in which one entry misses one required key.
ConfigsMissingKey ==
    { [i \in 1..Len(cfg) |-> IF i = n THEN WithoutKey(cfg[i], k) ELSE cfg[i]] :
        cfg \in { c \in Configs : /\ c[1].start_idx = MaxStart
                                  /\ c[1].throttle_rate = 1
                                  /\ c[2].start_idx = MaxStart },
        n \in 1..2, k \in RequiredKeys }

\* Runs on a configuration with a missing key.
InitKeys == InitRun(ConfigsMissingKey)
SpecKeys == InitKeys /\ [][Next]_vars

\* ------------------------------------------------------------ properties
\* extract_single has ended for the current bag.
SingleEnded == pc = "return"

\* extract_single is running or has just ended: its locals are live.
InBag == pc \in {"open", "streaming", "finally", "return"}

IsKind(t, kind) == TopicConfig(data_schema, t).output_type = kind

CsvTopics == { t \in ConfiguredTopics : IsKind(t, "csv") }
ImgTopics == { t \in ConfiguredTopics : IsKind(t, "dir_of_imgs") }

RowLines(t) == { i \in 1..Len(csvFile[t]) : csvFile[t][i].kind = "row" }
HeaderLines(t) == { i \in 1..Len(csvFile[t]) : csvFile[t][i].kind = "header" }

\* Cursors of the messages written to the sink of topic t.
WrittenCursors(t) ==
    IF IsKind(t, "csv") THEN { csvFile[t][i].idx : i \in RowLines(t) }
    ELSE Range(imgFiles[t])

\* Cursors below n that the sampling rule of the spec keeps for topic t.
SampledBelow(t, n) ==
    LET c == TopicConfig(data_schema, t)
    IN { k \in 0..(n - 1) :
           k >= c.start_idx /\ k < c.end_idx /\ k % c.throttle_rate = 0 }

\* C1: after extract_single ends, by exhaustion or by an error at any point,
\* no file handle opened during the bag's processing remains open.
C1_NoHandleLeftOpen ==
    SingleEnded => \A t \in ConfiguredTopics : closes[t] >= opens[t]

\* C2: in a batch run a failing bag does not halt the batch: when the run is
\* over, every bag of the list has been handed to extract_single.
C2_BatchSurvivesFailure ==
    (mode = "all" /\ pc \in {"crashed", "exit"}) => bagIdx >= Len(list_o_bags)

\* C3: a message on a configured topic is written to the topic's sink iff its
\* cursor satisfies cursor >= start_idx, cursor < end_idx and
\* cursor mod throttle_rate = 0: the cursors written are among the sampled
\* cursors of the messages read, and are all of them while nothing has raised.
C3_AcceptedIffSampled ==
    InBag /\ pc # "open" =>
        \A t \in ConfiguredTopics :
            /\ WrittenCursors(t) \subseteq SampledBelow(t, seen[t])
            /\ ~raised => WrittenCursors(t) = SampledBelow(t, seen[t])

\* Witness of C3: some topic has both a written and a skipped message.
C3_Witness ==
    /\ pc = "streaming"
    /\ \E t \in ConfiguredTopics :
          /\ WrittenCursors(t) # {}
          /\ WrittenCursors(t) # 0..(seen[t] - 1)
          /\ seen[t] = MaxEnd + 1

\* C4: while a bag is streamed, the cursor of every configured topic equals
\* the number of messages read on that topic, accepted or not, whatever
\* other topics' messages came in between.
C4_CursorCountsEveryMessage ==
    pc = "streaming" =>
        \A t \in ConfiguredTopics : topic_msg_counts[t] = seen[t]

\* Witness of C4: a topic with several messages, some of them not accepted,
\* interleaved with messages of other topics.
C4_Witness ==
    /\ pc = "streaming"
    /\ \E t \in ConfiguredTopics :
          /\ seen[t] >= 2
          /\ Cardinality(WrittenCursors(t)) < seen[t]
          /\ pos > seen[t]

\* C5: the images of an image-directory topic are named by the cursors of the
\* accepted messages: names are saved in increasing order (no two alike, no
\* renumbering), each is a sampled cursor, and after a bag processed without
\* failure they are exactly the sampled cursors of the messages read.
C5_ImageNamesAreCursors ==
    InBag /\ pc # "open" =>
        \A t \in ImgTopics :
            /\ \A i, j \in 1..Len(imgFiles[t]) :
                  i < j => imgFiles[t][i] < imgFiles[t][j]
            /\ Range(imgFiles[t]) \subseteq SampledBelow(t, seen[t])
            /\ (SingleEnded /\ ~raised) =>
                  Range(imgFiles[t]) = SampledBelow(t, seen[t])

\* Witness of C5: a bag ended without failure with an image directory whose
\* names have a gap or do not start at zero.
C5_Witness ==
    /\ SingleEnded /\ ~raised
    /\ \E t \in ImgTopics :
          /\ imgFiles[t] # <<>>
          /\ Range(imgFiles[t]) # 0..(Len(imgFiles[t]) - 1)

\* C6: no row whose field set differs from the sink's columns is written: a
\* written row has a value under every column (a missing field would leave
\* the cell empty) and the mismatch halts the bag.
C6_NoRowWithOtherFields ==
    InBag /\ pc # "open" =>
        \A t \in CsvTopics : \A i \in RowLines(t) :
            \A c \in 1..Len(csvFile[t][i].cells) : csvFile[t][i].cells[c] # ""

\* C7: when extract_single ends, by exhaustion or any failure, every
\* registered tabular sink has been closed exactly once.
C7_RegisteredClosedOnce ==
    SingleEnded => \A t \in WriterTopics(csv_writers) : closes[t] = 1

\* C8: once a failure is raised in a bag, no further message is read, no row
\* or image is written and no cursor advances.
C8_FailureAbortsBag ==
    [][raised => /\ pos' = pos
                 /\ seen' = seen
                 /\ topic_msg_counts' = topic_msg_counts
                 /\ csvFile' = csvFile
                 /\ imgFiles' = imgFiles]_vars

\* Witness of C8: a message has raised while the bag could hold more.
C8_Witness ==
    /\ pc = "finally" /\ raised
    /\ pos >= 1 /\ pos < MaxMsgs
    /\ \E t \in ConfiguredTopics : topic_msg_counts[t] < seen[t]

\* C9: a topic has one sink per bag however many of its messages are
\* accepted: its CSV file is opened at most once, holds one header, written
\* before any row, and its image directory is made at most once.
C9_OneSinkPerTopic ==
    InBag /\ pc # "open" =>
        \A t \in ConfiguredTopics :
            /\ opens[t] <= 1
            /\ mkdirs[t] <= 1
            /\ Cardinality({ i \in 1..Len(csv_writers) : csv_writers[i].topic = t }) <= 1
            /\ HeaderLines(t) \subseteq {1}
            /\ RowLines(t) # {} => HeaderLines(t) = {1}
            /\ t \in WriterTopics(csv_writers) => opens[t] = 1

\* Witness of C9: two messages of one tabular topic were accepted and its
\* file, opened once, holds the header and both rows.
C9_Witness ==
    /\ pc = "streaming"
    /\ \E t \in CsvTopics :
          /\ Cardinality(WrittenCursors(t)) >= 2
          /\ opens[t] = 1
          /\ Len(csvFile[t]) = 3

\* The entry was configured without upper bound: end_idx is -1, or the value
\* __main__ puts in its place.
Unbounded(c) == c.end_idx = -1 \/ c.end_idx = InferredEndIdx

\* C10: for a topic configured with end_idx = -1, every message whose cursor
\* satisfies cursor >= start_idx and cursor mod throttle_rate = 0 is accepted,
\* whichever entry point runs the pipeline.
C10_MinusOneIsUnbounded ==
    (InBag /\ pc # "open" /\ ~raised) =>
        \A t \in ConfiguredTopics :
            LET c == TopicConfig(data_schema, t)
            IN Unbounded(c) =>
                 WrittenCursors(t) =
                    { k \in 0..(seen[t] - 1) :
                        k >= c.start_idx /\ k % c.throttle_rate = 0 }

\* Some entry of the configuration misses a required key.
MissingKey == \E i \in 1..Len(data_schema) : ~(RequiredKeys \subseteq DOMAIN data_schema[i])

\* C11: extraction of a bag under a configuration with an entry that misses
\* a required key fails, whatever the bag holds: extract_single never ends
\* without an exception.
C11_MissingKeyRejected ==
    (MissingKey /\ SingleEnded) => raised

\* Cursors of the rows of the CSV file of topic t, in file order after the
\* header.
RowCursors(t) ==
    [i \in 1..(Len(csvFile[t]) - 1) |-> csvFile[t][i + 1].idx]

\* C12: in the end-to-end scenario, whatever the interleaving, a processed
\* bag leaves a CSV with the header and exactly the rows of cursors 0, 2, 4
\* and an image directory with exactly 1.png, 2.png, 3.png, 4.png.
C12_EndToEnd ==
    SingleEnded =>
        /\ ~raised
        /\ Len(csvFile[CmdVelTopic]) = 4
        /\ csvFile[CmdVelTopic][1].kind = "header"
        /\ RowLines(CmdVelTopic) = 2..4
        /\ RowCursors(CmdVelTopic) = <<0, 2, 4>>
        /\ imgFiles[AuxTopic] = <<1, 2, 3, 4>>
        /\ csvFile[AuxTopic] = <<>> /\ imgFiles[CmdVelTopic] = <<>>

\* Witness of C12: a bag of the scenario, twelve messages, has been
\* processed to its end.
C12_Witness ==
    /\ SingleEnded
    /\ \A t \in DOMAIN E2EBag : seen[t] = E2EBag[t]
    /\ pos = 12

\* The batch has listed its bags.
BatchListed == mode = "all" /\ pc \notin {"main", "extract_all"} /\ bagIdx >= 1

\* C13 (state part): the bags listed are the non-hidden .bag files of the
\* directory, each once, in ascending order of size; the bag being extracted
\* is the one at the batch index; a batch that ends normally has gone through
\* every bag.
C13_ListedInSizeOrder ==
    BatchListed =>
        /\ Range(list_o_bags) = { f \in directory : f.suffix = ".bag" /\ ~f.dot }
        /\ Len(list_o_bags) = Cardinality(Range(list_o_bags))
        /\ \A i, j \in 1..Len(list_o_bags) :
              i < j => list_o_bags[i].size <= list_o_bags[j].size
        /\ InBag => bag_name = list_o_bags[bagIdx].stem
        /\ pc = "exit" => bagIdx = Len(list_o_bags) + 1

\* C13 (step part): an extraction starts only when none is running, on the
\* bag at the batch index, and the index only ever moves to the next bag,
\* when the extraction of the current one has ended.
C13_OneAtATime ==
    /\ (mode = "all" /\ pc' = "setup") =>
          /\ pc = "loop"
          /\ bag_name' = list_o_bags[bagIdx].stem
          /\ bagIdx' = bagIdx
    /\ (bagIdx >= 1 /\ bagIdx' # bagIdx) =>
          /\ pc = "return" /\ ~raised
          /\ bagIdx' = bagIdx + 1

\* C13: the batch driver processes the non-hidden .bag files of the
\* directory in ascending order of size, one at a time, once per bag.
C13_BatchInSizeOrder == []C13_ListedInSizeOrder /\ [][C13_OneAtATime]_vars

\* Witness of C13: the third and largest bag of a directory is being read.
C13_Witness ==
    /\ mode = "all" /\ pc = "streaming" /\ pos >= 1
    /\ bagIdx = 3 /\ Len(list_o_bags) = 3

\* C14 (state part): when a bag is opened every cursor is zero, and in the
\* second and later bags of a batch the cursors and the cursors written are
\* those of the bag's own messages.
C14_CursorsOfThisBag ==
    /\ pc = "open" => \A t \in ConfiguredTopics : topic_msg_counts[t] = 0
    /\ (mode = "all" /\ bagIdx >= 2 /\ pc = "streaming") =>
          \A t \in ConfiguredTopics :
              /\ topic_msg_counts[t] = seen[t]
              /\ WrittenCursors(t) = SampledBelow(t, seen[t])

\* C14 (step part): the setup of a bag zeroes every cursor, whatever the
\* cursors of the bag before were.
C14_SetupZeroes ==
    (pc = "setup" /\ pc' = "open") =>
        \A t \in ConfiguredTopics : topic_msg_counts'[t] = 0

\* C14: cursors are not persisted across bags.
C14_CursorsNotPersisted == []C14_CursorsOfThisBag /\ [][C14_SetupZeroes]_vars

\* Witness of C14: in the second bag of a batch the first message of a topic
\* has been accepted and written under cursor 0.
C14_Witness ==
    /\ mode = "all" /\ bagIdx = 2 /\ pc = "streaming"
    /\ \E t \in ConfiguredTopics : seen[t] = 1 /\ WrittenCursors(t) = {0}

C16_UnlistedStep ==
    (pc = "streaming" /\ seen'[UnlistedTopic] # seen[UnlistedTopic]) =>
        /\ UNCHANGED <<csv_writers, img_writers, csvFile, imgFiles,
                       opens, closes, mkdirs, raised, pc>>
        /\ \A t \in ConfiguredTopics : topic_msg_counts'[t] = topic_msg_counts[t]

\* C16: a message on a topic that is not in the schema has no observable
\* effect: no sink, no row or image, no error, configured cursors unchanged.
C16_UnlistedHasNoEffect == [][C16_UnlistedStep]_vars

\* Witness of C16: a message of the unlisted topic was read after messages
\* of a configured topic had advanced its cursor and filled its sink.
C16_Witness ==
    /\ pc = "streaming"
    /\ seen[UnlistedTopic] >= 1
    /\ UnlistedTopic \in DOMAIN topic_msg_counts
    /\ \E t \in ConfiguredTopics :
          topic_msg_counts[t] >= 1 /\ WrittenCursors(t) # {}

\* Topic t has a sink or output of some kind in the bag being processed.
HasSink(t) ==
    \/ opens[t] > 0 \/ mkdirs[t] > 0
    \/ t \in WriterTopics(csv_writers) \/ t \in img_writers
    \/ csvFile[t] # <<>> \/ imgFiles[t] # <<>>

\* C17: a topic has a sink (CSV file or image directory) only if one of its
\* messages read so far in this bag passed the sampling test; a topic whose
\* messages are all rejected, or that never appears, has no file or directory.
C17_SinksAreLazy ==
    InBag /\ pc # "open" =>
        \A t \in ConfiguredTopics :
            HasSink(t) => SampledBelow(t, seen[t]) # {}

\* Witness of C17: a bag ended with a topic whose messages were all rejected
\* and that has no sink, next to a topic that has one.
C17_Witness ==
    /\ SingleEnded /\ ~raised
    /\ \E t, u \in ConfiguredTopics :
          /\ seen[t] >= 2 /\ ~HasSink(t)
          /\ HasSink(u)

\* C18: the rows of a tabular topic's file are the accepted messages in
\* arrival order: the row cursors strictly increase down the file, and after
\* a bag processed without failure there is one row per sampled cursor of the
\* messages read, none dropped and none twice.
C18_RowsInArrivalOrder ==
    InBag /\ pc # "open" =>
        \A t \in CsvTopics :
            /\ \A i, j \in 1..Len(RowCursors(t)) :
                  i < j => RowCursors(t)[i] < RowCursors(t)[j]
            /\ (SingleEnded /\ ~raised) =>
                  /\ Len(RowCursors(t)) = Cardinality(SampledBelow(t, seen[t]))
                  /\ Range(RowCursors(t)) = SampledBelow(t, seen[t])

\* Witness of C18: a bag ended without failure whose tabular topic, read
\* between messages of other topics, has two rows.
C18_Witness ==
    /\ SingleEnded /\ ~raised
    /\ \E t \in CsvTopics :
          /\ Len(RowCursors(t)) = 2
          /\ pos > seen[t]

\* Configured topics whose output type is neither csv nor dir_of_imgs.
OtherKindTopics ==
    { t \in ConfiguredTopics : ~IsKind(t, "csv") /\ ~IsKind(t, "dir_of_imgs") }

\* C19 (state part): a topic of another output type never has a sink, file
\* or directory, and its cursor counts every message read on it.
C19_NoSinkForOtherKind ==
    InBag /\ pc # "open" =>
        \A t \in OtherKindTopics :
            /\ ~HasSink(t)
            /\ pc = "streaming" => topic_msg_counts[t] = seen[t]

\* C19 (step part): reading a message of such a topic whose cursor passes
\* the sampling test changes no sink or file, raises nothing, leaves the loop
\* running and advances the topic's cursor by one.
C19_OtherKindStep ==
    \A t \in (IF pc = "streaming" THEN OtherKindTopics ELSE {}) :
        (seen'[t] # seen[t] /\ SampledBelow(t, seen[t] + 1) # SampledBelow(t, seen[t])) =>
            /\ UNCHANGED <<csv_writers, img_writers, csvFile, imgFiles,
                           opens, closes, mkdirs, raised, pc>>
            /\ topic_msg_counts'[t] = topic_msg_counts[t] + 1

\* C19: a message that passes the sampling test on a topic whose output_type
\* is neither csv nor dir_of_imgs creates no sink, writes nothing and raises
\* no error; the cursor advances and processing continues.
C19_OtherKindIsSilent == []C19_NoSinkForOtherKind /\ [][C19_OtherKindStep]_vars

\* Witness of C19: two messages of such a topic were read, one of them
\* passing the sampling test, and the bag is still being streamed.
C19_Witness ==
    /\ pc = "streaming" /\ ~raised
    /\ \E t \in OtherKindTopics :
          /\ seen[t] >= 2
          /\ SampledBelow(t, seen[t] - 1) # {}
          /\ topic_msg_counts[t] = seen[t]

====
